---- MODULE Spec2Model ----
(***************************************************************************)
(* A model of the personal RAG assistant: the fallback character-window    *)
(* splitter, the loader dispatch, and the upload / chat request handlers   *)
(* that write and read the one on-disk FAISS index.                        *)
(*                                                                         *)
(* Text is a sequence of one-character strings.  Python's None is the      *)
(* string "None".  A call that can raise returns a record whose field exc  *)
(* names the exception ("None" when it returned normally).                 *)
(***************************************************************************)
EXTENDS Integers, Sequences, FiniteSets, TLC

VARIABLES
    \* ---- the splitter called on its own (SpecSplit)
    docs,            \* the list of documents handed to split_documents
    chunk_size,      \* RecursiveCharacterTextSplitter.chunk_size
    chunk_overlap,   \* RecursiveCharacterTextSplitter.chunk_overlap
    out,             \* what split_documents returned
    pc_split,        \* "call" | "returned" | "raised"
    \* ---- the optional loader classes (module globals, set once at import)
    TextLoader,
    PyPDFLoader,
    UnstructuredWordDocumentLoader,
    \* ---- get_loader_for_file called on its own (SpecLoader)
    path,            \* the argument
    loader,          \* the loader object returned
    pc_loader,       \* "call" | "returned"
    \* ---- the server (Spec)
    entry,           \* which module serves: "app" (app.py) or "main" (main.py, ingest.py, utils.py)
    FAISS,           \* the vector-store class, or None when its import failed (app.py)
    OpenAIEmbeddings,\* the embeddings class, or None when its import failed (app.py)
    uploads,         \* UPLOAD_DIR on disk: the saved files, each a name and a content
    faiss_dir,       \* FAISS_DIR on disk: whether it exists, whether an index is saved, its chunks
    requests,        \* the requests in flight: one record per request slot
    running,         \* the slots whose handler has started and not yet returned
    response,        \* the response sent last
    last_ingested    \* history: the file whose ingest succeeded last

splitVars == <<docs, chunk_size, chunk_overlap, out, pc_split>>
loaderCaps == <<TextLoader, PyPDFLoader, UnstructuredWordDocumentLoader>>
loaderVars == <<path, loader, pc_loader>>
serverCaps == <<entry, FAISS, OpenAIEmbeddings>>
serverVars == <<uploads, faiss_dir, requests, running, response, last_ingested>>
vars == <<splitVars, loaderCaps, loaderVars, serverCaps, serverVars>>

None == "None"

Max(a, b) == IF a >= b THEN a ELSE b
Min(a, b) == IF a <= b THEN a ELSE b

------------------------------------------------------------------------------
(* Bounds of the model *)

\* longest text drawn character by character
MaxLen == 4
\* largest chunk_size drawn (besides the default)
MaxSize == 4
\* largest chunk_overlap drawn (besides the default)
MaxOverlap == 5
\* longest file stem drawn in front of an extension
MaxStem == 1
\* most source documents a chain result carries
MaxSources == 2

\* the defaults of RecursiveCharacterTextSplitter.__init__ and split_documents
DefaultChunkSize == 1000
DefaultChunkOverlap == 200

Alphabet == {"a", "b"}

\* every text of at most n characters
TextsUpTo(n) == UNION {[1..k -> Alphabet] : k \in 0..n}

\* a long text whose characters differ from their neighbours at distance 3
LongText(n) == [i \in 1..n |-> IF i % 3 = 0 THEN "b" ELSE "a"]

------------------------------------------------------------------------------
(* Python built-ins the splitter uses *)

\* s[i:j] for 0 <= i: the characters at offsets i .. j-1 that exist
PySlice(s, i, j) == SubSeq(s, i + 1, Min(j, Len(s)))

\* range(start, stop, step) as the list of its values; step 0 raises ValueError
PyRange(start, stop, step) ==
    IF step = 0 THEN [exc |-> "ValueError", value |-> <<>>]
    ELSE LET n == IF step > 0
                  THEN (IF stop <= start THEN 0 ELSE ((stop - start - 1) \div step) + 1)
                  ELSE (IF stop >= start THEN 0 ELSE ((start - stop - 1) \div (0 - step)) + 1)
         IN [exc |-> None, value |-> [k \in 1..n |-> start + (k - 1) * step]]

------------------------------------------------------------------------------
(* utils.py / app.py: the fallback RecursiveCharacterTextSplitter *)

\* a bug that drops the floor of 1 on the step
SplitStep_NoClamp(size, overlap) == size - overlap

\* a bug that adds the overlap instead of subtracting it
SplitStep_Plus(size, overlap) == Max(1, size + overlap)

\* step = max(1, self.chunk_size - self.chunk_overlap)
SplitStep(size, overlap) == Max(1, size - overlap)

\* the loop bound max(1, len(text))
SplitStop(text) == Max(1, Len(text))

\* a bug that cuts each chunk at the step, not at chunk_size
ChunkAt_Step(text, i, size, overlap) ==
    [page_content |-> PySlice(text, i, i + SplitStep(size, overlap))]

\* the chunk appended at offset i: text[i:i + self.chunk_size]
ChunkAt(text, i, size, overlap) == [page_content |-> PySlice(text, i, i + size)]

\* the inner loop for one document d
SplitOne(d, size, overlap) ==
    LET text == d.page_content
        step == SplitStep(size, overlap)
        r    == PyRange(0, SplitStop(text), step)
    IN IF r.exc # None THEN r
       ELSE [exc |-> None,
             value |-> [k \in 1..Len(r.value) |-> ChunkAt(text, r.value[k], size, overlap)]]

\* split_documents(self, docs): the chunks of every document, in order
RECURSIVE SplitDocs(_, _, _)
SplitDocs(ds, size, overlap) ==
    IF ds = <<>> THEN [exc |-> None, value |-> <<>>]
    ELSE LET h == SplitOne(Head(ds), size, overlap)
             t == SplitDocs(Tail(ds), size, overlap)
         IN IF h.exc # None THEN h
            ELSE IF t.exc # None THEN t
            ELSE [exc |-> None, value |-> h.value \o t.value]

\* the module-level split_documents(docs, chunk_size=1000, chunk_overlap=200)
split_documents(ds) == SplitDocs(ds, DefaultChunkSize, DefaultChunkOverlap)

------------------------------------------------------------------------------
(* utils.py / app.py: the optional loader classes and get_loader_for_file *)

\* `from langchain.document_loaders import TextLoader, PyPDFLoader,
\* UnstructuredWordDocumentLoader` is one statement: all three names are
\* bound to their classes, or the except branch sets all three to None
LoaderImport ==
    \E ok \in BOOLEAN :
        /\ TextLoader = IF ok THEN "TextLoader" ELSE None
        /\ PyPDFLoader = IF ok THEN "PyPDFLoader" ELSE None
        /\ UnstructuredWordDocumentLoader =
               IF ok THEN "UnstructuredWordDocumentLoader" ELSE None

UpperChars == <<"A", "C", "D", "F", "M", "O", "P", "T", "X">>
LowerChars == <<"a", "c", "d", "f", "m", "o", "p", "t", "x">>

\* a bug that compares the extension case-sensitively
PyLower_Identity(s) == s

\* str.lower()
PyLower(s) ==
    [k \in 1..Len(s) |->
        IF \E u \in 1..Len(UpperChars) : UpperChars[u] = s[k]
        THEN LowerChars[CHOOSE u \in 1..Len(UpperChars) : UpperChars[u] = s[k]]
        ELSE s[k]]

\* str.endswith(suffix)
PyEndsWith(s, suffix) ==
    /\ Len(s) >= Len(suffix)
    /\ SubSeq(s, Len(s) - Len(suffix) + 1, Len(s)) = suffix

\* SimpleTextLoader(path, encoding="utf-8")
SimpleTextLoader(p) == [cls |-> "SimpleTextLoader", path |-> p, encoding |-> "utf-8"]

get_loader_for_file(p) ==
    LET lower == PyLower(p)
    IN IF PyEndsWith(lower, <<".", "p", "d", "f">>)
       THEN IF PyPDFLoader # None
            THEN [cls |-> PyPDFLoader, path |-> p, encoding |-> None]
            ELSE SimpleTextLoader(p)
       ELSE IF \/ PyEndsWith(lower, <<".", "t", "x", "t">>)
               \/ PyEndsWith(lower, <<".", "m", "d">>)
       THEN IF TextLoader # None
            THEN [cls |-> TextLoader, path |-> p, encoding |-> "utf-8"]
            ELSE SimpleTextLoader(p)
       ELSE IF \/ PyEndsWith(lower, <<".", "d", "o", "c", "x">>)
               \/ PyEndsWith(lower, <<".", "d", "o", "c">>)
       THEN IF UnstructuredWordDocumentLoader # None
            THEN [cls |-> UnstructuredWordDocumentLoader, path |-> p, encoding |-> None]
            ELSE SimpleTextLoader(p)
       ELSE IF TextLoader # None
            THEN [cls |-> TextLoader, path |-> p, encoding |-> "utf-8"]
            ELSE SimpleTextLoader(p)

------------------------------------------------------------------------------
(* SpecSplit: the splitter applied to drawn inputs *)

Doc(text) == [page_content |-> text]

\* the variables of the other specifications, at rest
\* no loader object yet
NoLoader == [cls |-> None, path |-> <<>>, encoding |-> None]
LoaderIdle == path = <<>> /\ loader = NoLoader /\ pc_loader = "idle"
SplitIdle ==
    /\ docs = <<>> /\ chunk_size = DefaultChunkSize
    /\ chunk_overlap = DefaultChunkOverlap /\ out = <<>> /\ pc_split = "idle"

\* the two request slots of the server
RequestIds == {1, 2}

\* FAISS_DIR before any ingest: no directory, no index
NoIndexDir == [exists |-> FALSE, saved |-> FALSE, index |-> <<>>]

\* no file ingested yet
NothingIngested == [done |-> FALSE, filename |-> <<>>, content |-> <<>>]

FreeSlot ==
    [kind |-> "free", pc |-> "free", filename |-> <<>>, content |-> <<>>,
     local |-> <<>>, attempts |-> 0, before |-> NoIndexDir,
     ingested_before |-> NothingIngested]

NoResponse ==
    [kind |-> "none", status |-> 0, detail |-> "", uncaught |-> FALSE, cause |-> "",
     chunks |-> 0, filename |-> <<>>, answer |-> None, retrieved |-> <<>>,
     source_documents |-> <<>>, attempts |-> 0, before |-> NoIndexDir,
     after |-> NoIndexDir, ingested_before |-> NothingIngested]

ServerIdle ==
    /\ entry = "app" /\ FAISS = "FAISS" /\ OpenAIEmbeddings = "OpenAIEmbeddings"
    /\ uploads = {}
    /\ faiss_dir = NoIndexDir
    /\ requests = [r \in RequestIds |-> FreeSlot]
    /\ running = {}
    /\ response = NoResponse
    /\ last_ingested = NothingIngested

SplitTexts == TextsUpTo(MaxLen)

\* one document, or two short ones, or none
SplitDocLists ==
    {<<>>} \cup {<<Doc(t)>> : t \in SplitTexts}
           \cup {<<Doc(t), Doc(u)>> : t \in TextsUpTo(2), u \in TextsUpTo(1)}

\* the 2500-character upload of the scenario
ScenarioText == LongText(2500)

SplitInit ==
    /\ \/ /\ docs \in SplitDocLists
          /\ chunk_size \in 1..MaxSize
          /\ chunk_overlap \in 0..MaxOverlap
       \/ /\ docs \in {<<Doc(ScenarioText)>>, <<Doc(<<>>)>>, <<Doc(<<"a", "b">>)>>}
          /\ chunk_size = DefaultChunkSize
          /\ chunk_overlap = DefaultChunkOverlap
    /\ out = <<>>
    /\ pc_split = "call"
    /\ LoaderImport
    /\ LoaderIdle
    /\ ServerIdle

\* splitter = RecursiveCharacterTextSplitter(chunk_size, chunk_overlap);
\* splitter.split_documents(docs)
SplitCall ==
    /\ pc_split = "call"
    /\ LET r == SplitDocs(docs, chunk_size, chunk_overlap)
       IN /\ out' = r.value
          /\ pc_split' = IF r.exc = None THEN "returned" ELSE "raised"
    /\ UNCHANGED <<docs, chunk_size, chunk_overlap, loaderCaps, loaderVars,
                   serverCaps, serverVars>>

SplitNext == SplitCall

SpecSplit == SplitInit /\ [][SplitNext]_vars

------------------------------------------------------------------------------
(* app.py / main.py / ingest.py: the upload and chat handlers *)

\* the preview cut of app.py's chat and of main.py's chat
AppPreview == 800
MainPreview == 400

UPLOAD_DIR == <<"u", "p", "l", "o", "a", "d", "s">>

\* os.path.join(UPLOAD_DIR, file.filename)
DestOf(filename) == UPLOAD_DIR \o <<"/">> \o filename

\* the files a client uploads: a short text file and a long one whose
\* extension is upper-case; an upload may also carry no file name
ShortFile == [filename |-> <<"a", ".", "t", "x", "t">>, content |-> <<"a", "b">>]
LongFile == [filename |-> <<"b", ".", "P", "D", "F">>, content |-> LongText(900)]
NamelessFile == [filename |-> <<>>, content |-> <<"b">>]
UploadFiles == {ShortFile, LongFile, NamelessFile}

\* a bug that starts a handler while another one is between two of its statements
LoopIdle_Preemptive == TRUE

\* upload_file and chat are `async def` with no await in their bodies: the
\* event loop runs a handler from its first statement to its return before
\* it starts another one
LoopIdle == running = {}

\* a response of the given kind; the other fields are filled by the handler
ResponseOf(r, status, detail, uncaught, cause) ==
    [NoResponse EXCEPT !.kind = requests[r].kind, !.status = status, !.detail = detail,
                       !.uncaught = uncaught, !.cause = cause,
                       !.filename = requests[r].filename,
                       !.attempts = requests[r].attempts,
                       !.before = requests[r].before,
                       !.after = faiss_dir,
                       !.ingested_before = requests[r].ingested_before]

\* an exception no handler catches: the server answers 500 Internal Server Error
Uncaught(r, cause) == ResponseOf(r, 500, "Internal Server Error", TRUE, cause)

\* the handler returns or raises: the response goes out and the slot is free
Finish(r, resp) ==
    /\ response' = resp
    /\ requests' = [requests EXCEPT ![r] = FreeSlot]
    /\ running' = running \ {r}

\* a request is accepted by the server; its handler has not started
Arrive(r) ==
    /\ requests[r].kind = "free"
    /\ \/ \E f \in UploadFiles :
            requests' = [requests EXCEPT ![r] =
                [FreeSlot EXCEPT !.kind = "upload", !.pc = "pending",
                                 !.filename = f.filename, !.content = f.content]]
       \/ requests' = [requests EXCEPT ![r] =
                [FreeSlot EXCEPT !.kind = "chat", !.pc = "pending"]]
    /\ UNCHANGED <<uploads, faiss_dir, running, response, last_ingested>>
    /\ UNCHANGED <<splitVars, loaderCaps, loaderVars, serverCaps>>

\* upload_file up to the call of ingest_file: the file name check and the save
UploadBegin(r) ==
    /\ requests[r].kind = "upload" /\ requests[r].pc = "pending"
    /\ LoopIdle
    /\ LET me == [requests[r] EXCEPT !.before = faiss_dir,
                                     !.ingested_before = last_ingested]
           started == [requests EXCEPT ![r] = me]
       IN IF requests[r].filename = <<>>
          THEN \* raise HTTPException(status_code=400, detail="No filename provided")
               /\ response' = [NoResponse EXCEPT !.kind = "upload", !.status = 400,
                                                 !.detail = "No filename provided",
                                                 !.cause = "no_filename",
                                                 !.before = faiss_dir,
                                                 !.after = faiss_dir,
                                                 !.ingested_before = last_ingested]
               /\ requests' = [requests EXCEPT ![r] = FreeSlot]
               /\ running' = running \ {r}
               /\ UNCHANGED uploads
          ELSE \/ \* shutil.copyfileobj wrote the file
                  /\ uploads' = {f \in uploads : f.filename # me.filename}
                                   \cup {[filename |-> me.filename, content |-> me.content]}
                  /\ requests' = [started EXCEPT ![r].pc = "ingest"]
                  /\ running' = running \cup {r}
                  /\ UNCHANGED response
               \/ \* open or copyfileobj raised
                  /\ response' =
                        IF entry = "app"
                        THEN [NoResponse EXCEPT !.kind = "upload", !.status = 500,
                                                !.detail = "Failed to save file",
                                                !.cause = "save_file_error",
                                                !.filename = me.filename,
                                                !.before = faiss_dir,
                                                !.after = faiss_dir,
                                                !.ingested_before = last_ingested]
                        ELSE [NoResponse EXCEPT !.kind = "upload", !.status = 500,
                                                !.detail = "Internal Server Error",
                                                !.uncaught = TRUE,
                                                !.cause = "save_file_error",
                                                !.filename = me.filename,
                                                !.before = faiss_dir,
                                                !.after = faiss_dir,
                                                !.ingested_before = last_ingested]
                  /\ requests' = [requests EXCEPT ![r] = FreeSlot]
                  /\ running' = running \ {r}
                  /\ UNCHANGED uploads
    /\ UNCHANGED <<faiss_dir, last_ingested>>
    /\ UNCHANGED <<splitVars, loaderCaps, loaderVars, serverCaps>>

\* a bug that swallows the exception and reports the file as ingested
IngestFailed_Swallowed(r, cause) == ResponseOf(r, 200, "ingested", FALSE, cause)

\* how upload_file reports an exception of ingest_file: app.py catches it and
\* raises HTTPException(500, "Ingest failed: ..."), main.py lets it through
IngestFailed(r, cause) ==
    IF entry = "app"
    THEN ResponseOf(r, 500, "Ingest failed", FALSE, cause)
    ELSE Uncaught(r, cause)

\* the capability checks at the head of app.py's ingest_file (ingest.py has none)
IngestPrecheck ==
    IF entry # "app" THEN None
    ELSE IF FAISS = None THEN "faiss_missing"
    ELSE IF OpenAIEmbeddings = None THEN "embeddings_missing"
    ELSE None

\* loader.load(): the file's text as one document, or an exception
LoadOutcomes(ld) ==
    {[exc |-> "load_error", value |-> <<>>]}
        \cup {[exc |-> None, value |-> <<Doc(f.content)>>] :
                 f \in {g \in uploads : DestOf(g.filename) = ld.path}}

\* ingest_file from its first statement to FAISS.from_documents
UploadIngest(r) ==
    /\ r \in running
    /\ requests[r].kind = "upload" /\ requests[r].pc = "ingest"
    /\ LET me == [requests[r] EXCEPT !.attempts = @ + 1]
           tried == [requests EXCEPT ![r] = me]
           fail(cause) ==
               /\ response' = [IngestFailed(r, cause) EXCEPT !.attempts = me.attempts]
               /\ requests' = [requests EXCEPT ![r] = FreeSlot]
               /\ running' = running \ {r}
       IN IF IngestPrecheck # None
          THEN fail(IngestPrecheck)
          ELSE \E ld \in LoadOutcomes(get_loader_for_file(DestOf(me.filename))) :
                  IF ld.exc # None
                  THEN fail(ld.exc)
                  ELSE LET sp == split_documents(ld.value)
                       IN IF sp.exc # None
                          THEN fail(sp.exc)
                          ELSE \/ \* OpenAIEmbeddings() or FAISS.from_documents raised
                                  fail("embed_error")
                               \/ \* the in-memory index is built
                                  /\ requests' = [tried EXCEPT ![r].pc = "makedirs",
                                                               ![r].local = sp.value]
                                  /\ UNCHANGED <<running, response>>
    /\ UNCHANGED <<uploads, faiss_dir, last_ingested>>
    /\ UNCHANGED <<splitVars, loaderCaps, loaderVars, serverCaps>>

\* os.makedirs(FAISS_DIR, exist_ok=True)
UploadMakedirs(r) ==
    /\ r \in running
    /\ requests[r].kind = "upload" /\ requests[r].pc = "makedirs"
    /\ faiss_dir' = [faiss_dir EXCEPT !.exists = TRUE]
    /\ requests' = [requests EXCEPT ![r].pc = "save_local"]
    /\ UNCHANGED <<uploads, running, response, last_ingested>>
    /\ UNCHANGED <<splitVars, loaderCaps, loaderVars, serverCaps>>

\* a bug that adds the new chunks to the saved index instead of replacing it
SavedIndex_Merge(old, new) == old \o new

\* what index.save_local leaves on disk: the new index alone
SavedIndex(old, new) == new

\* index.save_local(FAISS_DIR) and the return of upload_file
UploadSaveLocal(r) ==
    /\ r \in running
    /\ requests[r].kind = "upload" /\ requests[r].pc = "save_local"
    /\ \/ \* saved: return {"status": "ingested", "chunks": len(split_docs), ...}
          /\ faiss_dir' = [faiss_dir EXCEPT
                              !.saved = TRUE,
                              !.index = SavedIndex(faiss_dir.index, requests[r].local)]
          /\ last_ingested' = [done |-> TRUE, filename |-> requests[r].filename,
                               content |-> requests[r].content]
          /\ Finish(r, [ResponseOf(r, 200, "ingested", FALSE, "")
                            EXCEPT !.chunks = Len(requests[r].local),
                                   !.after = faiss_dir'])
       \/ \* save_local raised: the files on disk are as they were
          /\ Finish(r, IngestFailed(r, "save_local_error"))
          /\ UNCHANGED <<faiss_dir, last_ingested>>
    /\ UNCHANGED uploads
    /\ UNCHANGED <<splitVars, loaderCaps, loaderVars, serverCaps>>

\* a bug that loads the index without looking whether FAISS_DIR exists
App_load_index_NoDirCheck ==
    IF FAISS = None THEN {[exc |-> "faiss_missing", found |-> FALSE]}
    ELSE IF faiss_dir.saved THEN {[exc |-> None, found |-> TRUE]}
    ELSE {[exc |-> "load_error", found |-> FALSE]}

\* load_index of app.py: the index object, None, or an exception
App_load_index ==
    IF FAISS = None THEN {[exc |-> "faiss_missing", found |-> FALSE]}
    ELSE IF ~faiss_dir.exists THEN {[exc |-> None, found |-> FALSE]}
    ELSE IF OpenAIEmbeddings = None THEN {[exc |-> "embeddings_missing", found |-> FALSE]}
    ELSE IF faiss_dir.saved
         THEN {[exc |-> None, found |-> TRUE], [exc |-> "load_error", found |-> FALSE]}
         ELSE {[exc |-> "load_error", found |-> FALSE]}

\* load_index of ingest.py
Ingest_load_index ==
    IF ~faiss_dir.exists THEN {[exc |-> None, found |-> FALSE]}
    ELSE IF faiss_dir.saved
         THEN {[exc |-> None, found |-> TRUE], [exc |-> "load_error", found |-> FALSE]}
         ELSE {[exc |-> "load_error", found |-> FALSE]}

\* chat up to the construction of the retriever: load_index and the None check
ChatBegin(r) ==
    /\ requests[r].kind = "chat" /\ requests[r].pc = "pending"
    /\ LoopIdle
    /\ \E li \in (IF entry = "app" THEN App_load_index ELSE Ingest_load_index) :
          LET snap(resp) == [resp EXCEPT !.before = faiss_dir,
                                         !.ingested_before = last_ingested]
          IN IF li.exc # None
             THEN Finish(r, snap(Uncaught(r, li.exc)))
             ELSE IF ~li.found
             THEN \* raise HTTPException(400, "No index found. Upload documents first.")
                  Finish(r, snap(ResponseOf(r, 400, "No index found", FALSE, "no_index")))
             ELSE /\ requests' = [requests EXCEPT ![r].pc = "chain",
                                                  ![r].local = faiss_dir.index,
                                                  ![r].before = faiss_dir,
                                                  ![r].ingested_before = last_ingested]
                  /\ running' = running \cup {r}
                  /\ UNCHANGED response
    /\ UNCHANGED <<uploads, faiss_dir, last_ingested>>
    /\ UNCHANGED <<splitVars, loaderCaps, loaderVars, serverCaps>>

\* the lists of at most MaxSources different chunks of an index, in any order
Retrievals(index) ==
    LET picks == UNION {[1..n -> 1..Len(index)] : n \in 0..MaxSources}
    IN {[k \in 1..Len(p) |-> index[p[k]]] :
           p \in {q \in picks : \A i, j \in 1..Len(q) : i # j => q[i] # q[j]}}

\* what the chain returns: an answer, and source documents when it is set up
\* to return them
ChainResults(index) ==
    {[answer |-> "answer", has_sources |-> FALSE, source_documents |-> <<>>]}
        \cup {[answer |-> "answer", has_sources |-> TRUE, source_documents |-> sd] :
                 sd \in Retrievals(index)}

\* a bug that returns the source text uncut
Preview_Uncut(text) == text

\* the preview of one source document: [:800] in app.py, [:400] in main.py
Preview(text) == PySlice(text, 0, IF entry = "app" THEN AppPreview ELSE MainPreview)

\* the loop that builds `sources`
Sources(documents) ==
    [k \in 1..Len(documents) |-> [page_content |-> Preview(documents[k].page_content)]]

\* chat from the retriever to its return
ChatChain(r) ==
    /\ r \in running
    /\ requests[r].kind = "chat" /\ requests[r].pc = "chain"
    /\ \/ \* OpenAI(temperature=0) or from_llm raised, outside any try
          Finish(r, Uncaught(r, "llm_error"))
       \/ \* qa(...) raised
          Finish(r, IF entry = "app"
                    THEN ResponseOf(r, 500, "LLM chain error", FALSE, "chain_error")
                    ELSE Uncaught(r, "chain_error"))
       \/ \E result \in ChainResults(requests[r].local) :
             LET got == IF result.has_sources THEN result.source_documents ELSE <<>>
             IN Finish(r, [ResponseOf(r, 200, "", FALSE, "")
                              EXCEPT !.answer = result.answer,
                                     !.retrieved = got,
                                     !.source_documents = Sources(got)])
    /\ UNCHANGED <<uploads, faiss_dir, last_ingested>>
    /\ UNCHANGED <<splitVars, loaderCaps, loaderVars, serverCaps>>

\* the server after start-up: app.py tolerates a missing FAISS or
\* OpenAIEmbeddings import, main.py and ingest.py import both unconditionally
Init ==
    /\ entry \in {"app", "main"}
    /\ FAISS \in (IF entry = "app" THEN {"FAISS", None} ELSE {"FAISS"})
    /\ OpenAIEmbeddings \in (IF entry = "app" THEN {"OpenAIEmbeddings", None}
                             ELSE {"OpenAIEmbeddings"})
    /\ LoaderImport
    /\ uploads = {}
    /\ faiss_dir = NoIndexDir
    /\ requests = [r \in RequestIds |-> FreeSlot]
    /\ running = {}
    /\ response = NoResponse
    /\ last_ingested = NothingIngested
    /\ SplitIdle
    /\ LoaderIdle

Next ==
    \E r \in RequestIds :
        \/ Arrive(r)
        \/ UploadBegin(r)
        \/ UploadIngest(r)
        \/ UploadMakedirs(r)
        \/ UploadSaveLocal(r)
        \/ ChatBegin(r)
        \/ ChatChain(r)

Spec == Init /\ [][Next]_vars

------------------------------------------------------------------------------
(* SpecLoader: get_loader_for_file applied to drawn paths *)

\* the upper-case form of a lower-case letter ("." has none)
UpperOf(c) ==
    IF \E u \in 1..Len(LowerChars) : LowerChars[u] = c
    THEN UpperChars[CHOOSE u \in 1..Len(LowerChars) : LowerChars[u] = c]
    ELSE c

\* every spelling of a lower-case word in upper and lower case
RECURSIVE CaseVariants(_)
CaseVariants(w) ==
    IF w = <<>> THEN {<<>>}
    ELSE {<<c>> \o r : c \in {Head(w), UpperOf(Head(w))}, r \in CaseVariants(Tail(w))}

KnownExtensions ==
    {<<".", "p", "d", "f">>, <<".", "t", "x", "t">>, <<".", "m", "d">>,
     <<".", "d", "o", "c", "x">>, <<".", "d", "o", "c">>}

\* endings that are none of the known extensions
OtherEndings ==
    {<<>>, <<"p", "d", "f">>, <<".", "p", "d">>, <<".", "p", "d", "f", "x">>,
     <<".", "t", "x", "t", "a">>, <<".", "m", "d", "x">>, <<".", "d", "o", "c", "m">>,
     <<".", "c">>, <<".", "P", "D", "F", "a">>, <<".", "p", "d", "f", ".">>}

Stems == UNION {[1..k -> {"a", "."}] : k \in 0..MaxStem} \cup {<<"a", ".", "p", "d", "f">>}

LoaderPaths ==
    {st \o e : st \in Stems,
               e \in (UNION {CaseVariants(w) : w \in KnownExtensions}) \cup OtherEndings}

LoaderInit ==
    /\ LoaderImport
    /\ path \in LoaderPaths
    /\ loader = NoLoader
    /\ pc_loader = "call"
    /\ SplitIdle
    /\ ServerIdle

LoaderCall ==
    /\ pc_loader = "call"
    /\ loader' = get_loader_for_file(path)
    /\ pc_loader' = "returned"
    /\ UNCHANGED <<path, loaderCaps, splitVars, serverCaps, serverVars>>

LoaderNext == LoaderCall

SpecLoader == LoaderInit /\ [][LoaderNext]_vars

------------------------------------------------------------------------------
(* Properties of the loader dispatch *)

\* the extension of a path: its characters from the last "." on, or nothing
ExtensionOf(p) ==
    IF \E k \in 1..Len(p) : p[k] = "."
    THEN LET last == CHOOSE k \in 1..Len(p) :
                        p[k] = "." /\ \A j \in (k + 1)..Len(p) : p[j] # "."
         IN SubSeq(p, last, Len(p))
    ELSE <<>>

\* two words equal up to the case of their letters
SameIgnoringCase(a, b) ==
    /\ Len(a) = Len(b)
    /\ \A k \in 1..Len(a) :
          \/ a[k] = b[k]
          \/ \E u \in 1..Len(UpperChars) :
                {a[k], b[k]} = {UpperChars[u], LowerChars[u]}

HasExtension(p, words) == \E w \in words : SameIgnoringCase(ExtensionOf(p), w)

\* the strategy the specification selects for a path
SelectedStrategy(p) ==
    IF HasExtension(p, {<<".", "p", "d", "f">>}) THEN "PyPDFLoader"
    ELSE IF HasExtension(p, {<<".", "d", "o", "c", "x">>, <<".", "d", "o", "c">>})
    THEN "UnstructuredWordDocumentLoader"
    ELSE "TextLoader"

\* C7: the dispatch is total and decided by the extension without regard to
\* case: .pdf gives the PDF loader, .docx and .doc the Word loader, .txt, .md
\* and every other path the text loader; when the loader classes are absent
\* the raw UTF-8 text loader is returned; the loader is given the path as it
\* was passed.
C7_LoaderDispatch ==
    pc_loader = "returned" =>
        /\ loader.cls # None
        /\ loader.path = path
        /\ loader.cls = (IF TextLoader = None THEN "SimpleTextLoader"
                         ELSE SelectedStrategy(path))
        /\ ((loader.cls \in {"SimpleTextLoader", "TextLoader"}) => (loader.encoding = "utf-8"))

\* C7's case: an upper-case .PDF path dispatched to the PDF loader
C7_Witness ==
    /\ pc_loader = "returned"
    /\ path = <<"a", ".", "P", "D", "F">>
    /\ loader.cls = "PyPDFLoader"

------------------------------------------------------------------------------
(* Properties of the splitter *)

\* the splitter was called on one document and returned
SplitOneDone == pc_split = "returned" /\ Len(docs) = 1

\* the step as the specification words it
SpecStep == IF chunk_size - chunk_overlap >= 1 THEN chunk_size - chunk_overlap ELSE 1

\* the characters of t at offsets i .. j-1, as far as t goes
Window(t, i, j) == [p \in 1..((IF j <= Len(t) THEN j ELSE Len(t)) - i) |-> t[i + p]]

\* the offsets 0, step, 2*step, ... below max(1, len(t))
StartOffsets(t) ==
    {i \in 0..((IF Len(t) >= 1 THEN Len(t) ELSE 1) - 1) : i % SpecStep = 0}

\* the k-th smallest of a set of offsets
NthOffset(S, k) == CHOOSE i \in S : Cardinality({j \in S : j < i}) = k - 1

\* the chunks the specification asks for, for one text
ExpectedChunks(t) ==
    LET S == StartOffsets(t)
    IN [k \in 1..Cardinality(S) |->
            [page_content |-> Window(t, NthOffset(S, k), NthOffset(S, k) + chunk_size)]]

RECURSIVE ExpectedAll(_)
ExpectedAll(ds) ==
    IF ds = <<>> THEN <<>>
    ELSE ExpectedChunks(Head(ds).page_content) \o ExpectedAll(Tail(ds))

\* C3: for chunk_size > 0 and chunk_overlap >= 0 the chunks of one text t
\* cover it without gaps: chunk k is the slice of t that starts at offset
\* (k-1)*step, the first starts at 0, the starts never decrease, no chunk
\* starts past the end of the one before it, the last ends at len(t), and
\* every character position lies in some chunk.
C3_CoversWithoutGaps ==
    SplitOneDone =>
        LET t == docs[1].page_content
            n == Len(out)
            start(k) == (k - 1) * SpecStep
            stop(k) == start(k) + Len(out[k].page_content)
        IN /\ n >= 1
           /\ start(1) = 0
           /\ \A k \in 1..n :
                /\ stop(k) <= Len(t)
                /\ out[k].page_content = [p \in 1..(stop(k) - start(k)) |-> t[start(k) + p]]
           /\ \A k \in 1..(n - 1) : start(k) <= start(k + 1) /\ start(k + 1) <= stop(k)
           /\ stop(n) = Len(t)
           /\ \A p \in 1..Len(t) : \E k \in 1..n : start(k) < p /\ p <= stop(k)

\* C3's case: a text longer than the step, split into several chunks
C3_Witness ==
    /\ SplitOneDone
    /\ Len(out) >= 3
    /\ chunk_overlap >= 1
    /\ chunk_size > chunk_overlap

\* C4: the call returns, for each document in order, exactly one chunk per
\* offset 0, step, 2*step, ... below max(1, len(text)), with content
\* text[i : i+chunk_size]; the empty text yields one empty chunk, and the
\* 2500-character text under the defaults yields 4 chunks starting at
\* 0, 800, 1600 and 2400.
C4_OneChunkPerOffset ==
    pc_split # "call" =>
        /\ pc_split = "returned"
        /\ out = ExpectedAll(docs)
        /\ ((docs = <<Doc(<<>>)>>) => (out = <<Doc(<<>>)>>))
        /\ ((docs = <<Doc(ScenarioText)>> /\ chunk_size = 1000 /\ chunk_overlap = 200) =>
              /\ Len(out) = 4
              /\ \A k \in 1..4 :
                    out[k].page_content =
                        Window(ScenarioText, 800 * (k - 1), 800 * (k - 1) + 1000))

\* C4's case: the 2500-character scenario has been split
C4_Witness ==
    /\ pc_split = "returned"
    /\ docs = <<Doc(ScenarioText)>>
    /\ chunk_size = 1000 /\ chunk_overlap = 200
    /\ Len(out) = 4
    /\ Len(out[4].page_content) = 100

\* C5: with chunk_overlap >= chunk_size the call does not raise and returns
\* finitely many chunks: one per character offset of the text (chunk k is
\* text[k-1 : k-1+chunk_size]), or one empty chunk for the empty text.
C5_ClampedStepTerminates ==
    (pc_split # "call" /\ chunk_overlap >= chunk_size) =>
        /\ pc_split = "returned"
        /\ SplitStep(chunk_size, chunk_overlap) = 1
        /\ (Len(docs) = 1 =>
              LET t == docs[1].page_content
              IN /\ Len(out) = (IF t = <<>> THEN 1 ELSE Len(t))
                 /\ \A k \in 1..Len(out) :
                       out[k].page_content = Window(t, k - 1, k - 1 + chunk_size))

\* C5's case: an overlap larger than the chunk size, on a text of several characters
C5_Witness ==
    /\ SplitOneDone
    /\ chunk_overlap > chunk_size
    /\ Len(docs[1].page_content) >= 3
    /\ Len(out) = Len(docs[1].page_content)

\* the last m characters of s
Tail_m(s, m) == SubSeq(s, Len(s) - m + 1, Len(s))
\* the first m characters of s
Head_m(s, m) == SubSeq(s, 1, m)

\* chunks k and k+1 share exactly m characters: the earlier one ends m
\* characters after the later one starts, and those m characters are the
\* tail of the earlier and the head of the later
SharesExactly(k, m) ==
    LET a == out[k].page_content
        b == out[k + 1].page_content
    IN /\ (k - 1) * SpecStep + Len(a) - k * SpecStep = m
       /\ Len(a) >= m /\ Len(b) >= m
       /\ Tail_m(a, m) = Head_m(b, m)

\* C6 as claimed: whenever one text yields more than one chunk, every pair of
\* consecutive chunks shares exactly chunk_size - step characters.
C6_Original_EveryPairSharesOverlap ==
    (SplitOneDone /\ Len(out) > 1) =>
        \A k \in 1..(Len(out) - 1) : SharesExactly(k, chunk_size - SpecStep)

\* C6 amended: a pair of consecutive chunks shares exactly chunk_size - step
\* characters when the earlier chunk is full (chunk_size characters long);
\* when the end of the text cut the earlier chunk short, the pair shares
\* only the later chunk, which is then shorter than chunk_size - step.
C6_FullChunkSharesOverlap ==
    (SplitOneDone /\ Len(out) > 1) =>
        \A k \in 1..(Len(out) - 1) :
            IF Len(out[k].page_content) = chunk_size
            THEN SharesExactly(k, chunk_size - SpecStep)
            ELSE /\ Len(out[k + 1].page_content) < chunk_size - SpecStep
                 /\ SharesExactly(k, Len(out[k + 1].page_content))

\* C6's case: a full chunk followed by a chunk it overlaps by two characters
C6_Witness ==
    /\ SplitOneDone
    /\ Len(out) > 1
    /\ chunk_size - SpecStep = 2
    /\ Len(out[1].page_content) = chunk_size
    /\ Len(out[Len(out)].page_content) = 1

------------------------------------------------------------------------------
(* Properties of the server *)

ChatAnswered == response.kind = "chat"

NoIndexFailure ==
    /\ response.status = 400
    /\ response.detail = "No index found"
    /\ ~response.uncaught
    /\ response.answer = None

ChunkSet(chunks) == {chunks[k] : k \in 1..Len(chunks)}

PreviewBound == IF entry = "app" THEN 800 ELSE 400

\* C8: a successful chat returns one source entry per source document of
\* the chain's result, in the same order, each the prefix of that document's
\* text cut at the preview bound, so none is longer than the bound.
C8_SourcesArePreviews ==
    (ChatAnswered /\ response.status = 200) =>
        /\ Len(response.source_documents) = Len(response.retrieved)
        /\ \A k \in 1..Len(response.retrieved) :
              /\ response.source_documents[k].page_content =
                     Window(response.retrieved[k].page_content, 0, PreviewBound)
              /\ Len(response.source_documents[k].page_content) <= PreviewBound

\* C8's case: two sources out of index order, the second one cut
C8_Witness ==
    /\ ChatAnswered /\ response.status = 200
    /\ Len(response.retrieved) = 2
    /\ Len(response.retrieved[1].page_content) = 100
    /\ Len(response.retrieved[2].page_content) = 900
    /\ Len(response.source_documents[2].page_content) = PreviewBound

\* an upload part-way through overwriting the index: os.makedirs has run,
\* save_local has not returned
MidWrite(r) == requests[r].kind = "upload" /\ requests[r].pc = "save_local"

\* a handler between its first statement and its return
InHandler(r) == requests[r].pc \in {"ingest", "makedirs", "save_local", "chain"}

\* the handler of a pending request starts
BeginHandler(r) == UploadBegin(r) \/ ChatBegin(r)

\* C9 as claimed: nothing keeps a request off the index while an upload is
\* part-way through overwriting it: whenever an upload is between makedirs
\* and the return of save_local, a pending request can start its handler.
C9_Original_NotExcluded ==
    \A r, q \in RequestIds :
        (MidWrite(r) /\ requests[q].pc = "pending") => ENABLED BeginHandler(q)

\* C9 amended: two requests can be in flight at once, but within the one
\* server process at most one handler is between its first statement and its
\* return: no chat holds or reads the index while an upload is part-way
\* through overwriting it, and no two uploads write at the same time.
C9_HandlersSerialized ==
    /\ Cardinality(running) <= 1
    /\ \A r \in RequestIds : InHandler(r) <=> r \in running
    /\ \A r, q \in RequestIds : (r # q /\ MidWrite(r)) => ~InHandler(q)

\* C9's case: an upload is overwriting an existing index while a chat waits
C9_Witness ==
    \E r, q \in RequestIds :
        /\ requests[r].kind = "upload" /\ requests[r].pc = "save_local"
        /\ faiss_dir.saved
        /\ requests[q].kind = "chat" /\ requests[q].pc = "pending"

IngestFailureCauses == {"faiss_missing", "embeddings_missing", "load_error", "embed_error"}

\* C10: an upload whose ingest failed for a missing capability, a load
\* error or an embedding error ends in a 500 failure after one attempt, and
\* FAISS_DIR is exactly as it was when the request started: the index saved
\* before is still there and none appeared.
C10_FailedIngestLeavesIndex ==
    (response.kind = "upload" /\ response.cause \in IngestFailureCauses) =>
        /\ response.status = 500
        /\ response.attempts = 1
        /\ response.after = response.before
        /\ response.before.saved =>
              (response.after.saved /\ response.after.index = response.before.index)
        /\ ~response.before.exists => ~response.after.exists

\* C10's case: an ingest failed after an earlier one had saved an index
C10_Witness ==
    /\ response.kind = "upload" /\ response.cause = "embed_error"
    /\ response.status = 500
    /\ response.before.saved
    /\ Len(response.before.index) = 2
    /\ faiss_dir = response.before


====
